---------------------------- MODULE Spec2Model ----------------------------
(***************************************************************************)
(* DoublePendulum (src/DoublePendulum.py): the mass matrix M, the          *)
(* unilateral constraint a and its Jacobian Da, the impact projector Delta, *)
(* the impact map R and the observation O, as a state machine whose        *)
(* actions are calls of these class methods.                               *)
(*                                                                         *)
(* Numbers.  The code computes in floating point; the model computes in    *)
(* exact arithmetic.  A rational is a pair <<n, d>> in lowest terms with   *)
(* d > 0.  A real is a rational plus arccos terms (the only transcendental *)
(* values the modelled methods produce), or NaN.  Python's 0-based index i *)
(* is the model's index i+1: q[0] is q[1] here, q[1] is q[2].              *)
(***************************************************************************)
EXTENDS Integers, Sequences, FiniteSets, TLC

VARIABLES q, dq, J, p, ret

vars == <<q, dq, J, p, ret>>

---------------------------------------------------------------------------
(* Bounds of the explored inputs. *)

\* q[0] ranges over the integers -MaxAngle..MaxAngle (radians).
MaxAngle == 1

\* each component of dq ranges over the integers -MaxVel..MaxVel.
MaxVel == 1

---------------------------------------------------------------------------
(* Exact rational arithmetic. *)

Abs(x) == IF x < 0 THEN -x ELSE x

RECURSIVE Gcd(_, _)
Gcd(x, y) == IF y = 0 THEN x ELSE Gcd(y, x % y)

\* the rational n/d (d # 0) in lowest terms with a positive denominator
Rat(n, d) ==
  LET g == Gcd(Abs(n), Abs(d))
      s == IF d < 0 THEN -1 ELSE 1
  IN  <<(s * n) \div g, (s * d) \div g>>

RInt(n) == <<n, 1>>
RZero == <<0, 1>>
ROne == <<1, 1>>

\* sums and products cancel common factors first, so that the
\* intermediate integers stay small
RAdd(x, y) ==
  LET g == Gcd(x[2], y[2])
  IN  Rat(x[1] * (y[2] \div g) + y[1] * (x[2] \div g), (x[2] \div g) * y[2])
RNeg(x) == <<-x[1], x[2]>>
RSub(x, y) == RAdd(x, RNeg(y))
RMul(x, y) ==
  LET g1 == Gcd(Abs(x[1]), y[2])
      g2 == Gcd(Abs(y[1]), x[2])
  IN  Rat((x[1] \div g1) * (y[1] \div g2), (x[2] \div g2) * (y[2] \div g1))
\* x / y, y # 0
RDiv(x, y) == RMul(x, Rat(y[2], y[1]))
RLt(x, y) == RSub(x, y)[1] < 0
RLe(x, y) == RSub(x, y)[1] <= 0
RAbs(x) == <<Abs(x[1]), x[2]>>

---------------------------------------------------------------------------
(* Reals: rat + sum of arccos(x), x in pos, - sum of arccos(x), x in neg.  *)
(* The sums never hold the same term twice in the modelled computations.   *)

NaN == [nan |-> TRUE, rat |-> RZero, pos |-> {}, neg |-> {}]

Real(r) == [nan |-> FALSE, rat |-> r, pos |-> {}, neg |-> {}]

IsNaN(v) == v.nan

\* np.arccos(x): NaN (with a RuntimeWarning, no exception) outside [-1, 1]
ArcCos(x) ==
  IF RLt(ROne, RAbs(x)) THEN NaN
  ELSE IF x = ROne THEN Real(RZero)
  ELSE [nan |-> FALSE, rat |-> RZero, pos |-> {x}, neg |-> {}]

Neg(v) == IF v.nan THEN NaN
          ELSE [nan |-> FALSE, rat |-> RNeg(v.rat), pos |-> v.neg, neg |-> v.pos]

Add(v, w) ==
  IF v.nan \/ w.nan THEN NaN
  ELSE LET P == v.pos \cup w.pos
           N == v.neg \cup w.neg
       IN  [nan |-> FALSE, rat |-> RAdd(v.rat, w.rat),
            pos |-> P \ N, neg |-> N \ P]

\* cos of an angle 0 or arccos(x)
Cos(v) == IF v.pos = {} THEN ROne ELSE CHOOSE x \in v.pos : TRUE

\* v < 0 as numpy compares: False for NaN.  arccos is strictly decreasing
\* on [-1, 1] with arccos(1) = 0, so arccos(x) < arccos(y) iff y < x.  Every
\* value the modelled methods compare is a plain rational or has rat = 0.
IsNeg(v) ==
  /\ ~v.nan
  /\ IF v.pos = {} /\ v.neg = {} THEN RLt(v.rat, RZero)
     ELSE IF v.pos = {} THEN TRUE
     ELSE IF v.neg = {} THEN FALSE
     ELSE \E x \in v.pos : \E y \in v.neg : RLt(y, x)

IsZero(v) == ~v.nan /\ v.rat = RZero /\ v.pos = {} /\ v.neg = {}

---------------------------------------------------------------------------
(* Matrices (numpy 2-d arrays): a shape and the rows.  Vectors are tuples. *)

Mat(r, c, e) == [rows |-> r, cols |-> c, e |-> e]

RECURSIVE Dot(_, _, _)
\* sum over k in 1..n of x[k] * y[k]
Dot(x, y, n) == IF n = 0 THEN RZero
                ELSE RAdd(Dot(x, y, n - 1), RMul(x[n], y[n]))

\* the tuple <<f[1], ..., f[n]>>, n <= 2 (no array here has a longer axis)
Vec(n, f) == IF n = 0 THEN <<>> ELSE IF n = 1 THEN <<f[1]>> ELSE <<f[1], f[2]>>

Col(A, j) == Vec(A.rows, [i \in 1..A.rows |-> A.e[i][j]])

\* A @ B
MatMul(A, B) ==
  Mat(A.rows, B.cols,
      Vec(A.rows, [i \in 1..A.rows |->
            Vec(B.cols, [j \in 1..B.cols |-> Dot(A.e[i], Col(B, j), A.cols)])]))

\* A @ v for a vector v
MatVec(A, v) == Vec(A.rows, [i \in 1..A.rows |-> Dot(A.e[i], v, A.cols)])

\* A.T
Transpose(A) == Mat(A.cols, A.rows, Vec(A.cols, [j \in 1..A.cols |-> Col(A, j)]))

MatAdd(A, B) ==
  Mat(A.rows, A.cols,
      Vec(A.rows, [i \in 1..A.rows |->
            Vec(A.cols, [j \in 1..A.cols |-> RAdd(A.e[i][j], B.e[i][j])])]))

\* c * A
MatScale(c, A) ==
  Mat(A.rows, A.cols,
      Vec(A.rows, [i \in 1..A.rows |->
            Vec(A.cols, [j \in 1..A.cols |-> RMul(c, A.e[i][j])])]))

\* np.identity(n)
Identity(n) ==
  Mat(n, n, Vec(n, [i \in 1..n |-> Vec(n, [j \in 1..n |-> IF i = j THEN ROne ELSE RZero])]))

(* The outcome of a call: a value, or the exception it raised. *)
Ok(v) == [ok |-> TRUE, val |-> v, err |-> "none"]
Raise(e) == [ok |-> FALSE, val |-> <<>>, err |-> e]

\* scipy.linalg.inv of a 0x0 matrix, by SciPy build: older builds raise from
\* the LAPACK wrapper, newer ones return the empty matrix.
EmptyInv == {"raises", "returns_empty"}

\* scipy.linalg.inv(A), A square with at most 2 rows; lib in EmptyInv
Inv(A, lib) ==
  IF A.rows = 0
  THEN IF lib = "raises" THEN Raise("ValueError") ELSE Ok(A)
  ELSE IF A.rows = 1
  THEN IF A.e[1][1] = RZero THEN Raise("LinAlgError")
       ELSE Ok(Mat(1, 1, << <<RDiv(ROne, A.e[1][1])>> >>))
  ELSE LET det == RSub(RMul(A.e[1][1], A.e[2][2]), RMul(A.e[1][2], A.e[2][1]))
       IN  IF det = RZero THEN Raise("LinAlgError")
           ELSE Ok(Mat(2, 2,
                  << <<RDiv(A.e[2][2], det), RDiv(RNeg(A.e[1][2]), det)>>,
                     <<RDiv(RNeg(A.e[2][1]), det), RDiv(A.e[1][1], det)>> >>))

---------------------------------------------------------------------------
(* The class methods.  t and k are passed through and never read. *)

\* b = m1*l0*l1/2
ParamB(p_) == RDiv(RMul(RMul(p_.m1, p_.l0), p_.l1), RInt(2))

\* d = m1*l1**2/3 + m1*(l1/2)**2
ParamD(p_) ==
  LET half == RDiv(p_.l1, RInt(2))
  IN  RAdd(RDiv(RMul(p_.m1, RMul(p_.l1, p_.l1)), RInt(3)),
           RMul(p_.m1, RMul(half, half)))

\* a = m0*l0**2/3 + m1*l1**2/3 + m0*(l0/2)**2 + m1*(l0**2+(l1/2)**2)
ParamA(p_) ==
  LET h0 == RDiv(p_.l0, RInt(2))
      h1 == RDiv(p_.l1, RInt(2))
  IN  RAdd(RAdd(RAdd(RDiv(RMul(p_.m0, RMul(p_.l0, p_.l0)), RInt(3)),
                     RDiv(RMul(p_.m1, RMul(p_.l1, p_.l1)), RInt(3))),
                RMul(p_.m0, RMul(h0, h0))),
           RMul(p_.m1, RAdd(RMul(p_.l0, p_.l0), RMul(h1, h1))))

\* M with the [0][1] entry missing its d term
M_Asymmetric(t, k, q_, J_, p_) ==
  LET a_ == ParamA(p_)
      b == ParamB(p_)
      d == ParamD(p_)
      m00 == RAdd(a_, RMul(RMul(RInt(2), b), Cos(q_[2])))
      m10 == RAdd(d, RMul(b, Cos(q_[2])))
      m11 == d
  IN  Mat(2, 2, << <<m00, RMul(b, Cos(q_[2]))>>, <<m10, m11>> >>)

\* DoublePendulum.M (numeric mode)
M(t, k, q_, J_, p_) ==
  LET a_ == ParamA(p_)
      b == ParamB(p_)
      d == ParamD(p_)
      m00 == RAdd(a_, RMul(RMul(RInt(2), b), Cos(q_[2])))
      m10 == RAdd(d, RMul(b, Cos(q_[2])))
      m11 == d
  IN  Mat(2, 2, << <<m00, m10>>, <<m10, m11>> >>)

\* DoublePendulum.a: -d/b raises ZeroDivisionError when b = 0
a(t, k, q_, dq_, J_, p_) ==
  LET b == ParamB(p_)
      d == ParamD(p_)
  IN  IF b = RZero THEN Raise("ZeroDivisionError")
      ELSE Ok(<<Add(q_[1], Real(RZero)),
                Add(Neg(q_[2]), ArcCos(RDiv(RNeg(d), b)))>>)

\* DoublePendulum.G
G(t, k, q_, dq_, J_, p_) == a(t, k, q_, dq_, J_, p_)

\* Da with the rows appended in the opposite order
Da_ReversedRows(t, k, q_, dq_, J_, p_) ==
  LET r0 == IF J_[1] THEN << <<ROne, RZero>> >> ELSE <<>>
      r1 == IF J_[2] THEN << <<RZero, RNeg(ROne)>> >> ELSE <<>>
      rows == r1 \o r0
  IN  IF Len(rows) > 0 THEN Mat(Len(rows), 2, rows)
      ELSE Mat(0, Len(q_), <<>>)

\* DoublePendulum.Da
Da(t, k, q_, dq_, J_, p_) ==
  LET r0 == IF J_[1] THEN << <<ROne, RZero>> >> ELSE <<>>
      r1 == IF J_[2] THEN << <<RZero, RNeg(ROne)>> >> ELSE <<>>
      rows == r0 \o r1
  IN  IF Len(rows) > 0 THEN Mat(Len(rows), 2, rows)
      ELSE Mat(0, Len(q_), <<>>)

\* Delta with Lambda = +inv(Da M^-1 Da^T)
Delta_PlusLambda(t, k, q_, dq_, J_, p_, lib) ==
  LET d == Len(q_)
      gamma == p_.gamma
      M_ == M(t, k, q_, J_, p_)
      Da_ == Da(t, k, q_, dq_, J_, p_)
      Minv == Inv(M_, lib)
      inner == Inv(MatMul(MatMul(Da_, Minv.val), Transpose(Da_)), lib)
      Lambda == inner.val
  IN  IF ~Minv.ok THEN Raise(Minv.err)
      ELSE IF ~inner.ok THEN Raise(inner.err)
      ELSE Ok(MatAdd(Identity(d),
                     MatMul(MatMul(MatMul(MatScale(RAdd(ROne, gamma), Minv.val),
                                          Transpose(Da_)),
                                   Lambda),
                            Da_)))

\* DoublePendulum.Delta; lib is the SciPy build's answer to a 0x0 inverse
Delta(t, k, q_, dq_, J_, p_, lib) ==
  LET d == Len(q_)
      gamma == p_.gamma
      M_ == M(t, k, q_, J_, p_)
      Da_ == Da(t, k, q_, dq_, J_, p_)
      Minv == Inv(M_, lib)
      inner == Inv(MatMul(MatMul(Da_, Minv.val), Transpose(Da_)), lib)
      Lambda == MatScale(RNeg(ROne), inner.val)
  IN  IF ~Minv.ok THEN Raise(Minv.err)
      ELSE IF ~inner.ok THEN Raise(inner.err)
      ELSE Ok(MatAdd(Identity(d),
                     MatMul(MatMul(MatMul(MatScale(RAdd(ROne, gamma), Minv.val),
                                          Transpose(Da_)),
                                   Lambda),
                            Da_)))

\* Jimpact = a <= 0
Jimpact_NonStrict(a_) ==
  <<IsNeg(a_[1]) \/ IsZero(a_[1]), IsNeg(a_[2]) \/ IsZero(a_[2])>>

\* Jimpact = a < 0, element-wise
Jimpact(a_) == <<IsNeg(a_[1]), IsNeg(a_[2])>>

(* Object identity.  "q", "dq" and "J" name the caller's argument objects; *)
(* "new" is an object the call allocated.  ref gives, for each component   *)
(* of a returned value, the object it is.                                  *)

\* R returning the configuration reset onto the contact-1 surface
R_ResetsQ(t, k, q_, dq_, J_, p_, lib) ==
  LET a_ == a(t, k, q_, dq_, J_, p_)
      Ji == Jimpact(a_.val)
      Delta_ == Delta(t, k, q_, dq_, Ji, p_, lib)
  IN  IF ~a_.ok THEN Raise(a_.err)
      ELSE IF ~Delta_.ok THEN Raise(Delta_.err)
      ELSE [ok |-> TRUE, err |-> "none",
            val |-> [q |-> <<q_[1], Add(q_[2], a_.val[2])>>,
                     dq |-> MatVec(Delta_.val, dq_), J |-> J_],
            ref |-> [q |-> "new", dq |-> "new", J |-> "new"],
            Jimpact |-> Ji]

\* R returning the active set it built the projector from
R_ReturnsJimpact(t, k, q_, dq_, J_, p_, lib) ==
  LET a_ == a(t, k, q_, dq_, J_, p_)
      Ji == Jimpact(a_.val)
      Delta_ == Delta(t, k, q_, dq_, Ji, p_, lib)
  IN  IF ~a_.ok THEN Raise(a_.err)
      ELSE IF ~Delta_.ok THEN Raise(Delta_.err)
      ELSE [ok |-> TRUE, err |-> "none",
            val |-> [q |-> q_, dq |-> MatVec(Delta_.val, dq_), J |-> Ji],
            ref |-> [q |-> "q", dq |-> "new", J |-> "new"],
            Jimpact |-> Ji]

\* DoublePendulum.R: return q, dq_, copy.copy(J)
R(t, k, q_, dq_, J_, p_, lib) ==
  LET a_ == a(t, k, q_, dq_, J_, p_)
      Ji == Jimpact(a_.val)
      Delta_ == Delta(t, k, q_, dq_, Ji, p_, lib)
  IN  IF ~a_.ok THEN Raise(a_.err)
      ELSE IF ~Delta_.ok THEN Raise(Delta_.err)
      ELSE [ok |-> TRUE, err |-> "none",
            val |-> [q |-> q_, dq |-> MatVec(Delta_.val, dq_), J |-> J_],
            ref |-> [q |-> "q", dq |-> "new", J |-> "new"],
            Jimpact |-> Ji]

\* DoublePendulum.O: o['q'] = q, o['dq'] = dq, o['g'] = cls.G(...)
O(t, k, q_, dq_, J_, p_) ==
  LET g == G(t, k, q_, dq_, J_, p_)
  IN  IF ~g.ok THEN Raise(g.err)
      ELSE [ok |-> TRUE, err |-> "none",
            val |-> [q |-> q_, dq |-> dq_, g |-> g.val],
            ref |-> [q |-> "q", dq |-> "dq", g |-> "new"]]

\* DoublePendulum.nominal_parameters
nominal_parameters ==
  [m0 |-> RInt(1), m1 |-> RInt(1), l0 |-> Rat(1, 2), l1 |-> Rat(2, 7),
   gamma |-> Rat(3, 10)]

\* DoublePendulum.simultaneous_impact_configuration
simultaneous_impact_configuration(p_) ==
  <<Real(RZero), ArcCos(RDiv(RNeg(ParamD(p_)), ParamB(p_)))>>

\* DoublePendulum.simultaneous_impact_velocity
simultaneous_impact_velocity == <<RInt(-1), RInt(1)>>

---------------------------------------------------------------------------
(* The explored inputs. *)

\* parameter dicts: nominal; plastic (gamma = 0) with a heavier link 0;
\* elastic (gamma = 1) with both links doubled; l1 = l0, where d/b = 7/6 > 1;
\* m1 = 0, where b = d = 0.
ParamSets ==
  { nominal_parameters,
    [nominal_parameters EXCEPT !.m0 = RInt(2), !.gamma = RZero],
    [nominal_parameters EXCEPT !.l0 = RInt(1), !.l1 = Rat(4, 7), !.gamma = ROne],
    [nominal_parameters EXCEPT !.l1 = Rat(1, 2)],
    [nominal_parameters EXCEPT !.m1 = RZero] }

\* cos(q[1]) of the explored angles q[1] = arccos(c): pi/2, the contact
\* angle of the nominal geometry, and pi
CosGrid == {RZero, Rat(-2, 3), RInt(-1)}

Configurations ==
  {<<Real(RInt(x)), ArcCos(c)>> : x \in -MaxAngle..MaxAngle, c \in CosGrid}

Velocities ==
  {<<RInt(x), RInt(y)>> : x \in -MaxVel..MaxVel, y \in -MaxVel..MaxVel}

ActiveSets == {<<x, y>> : x \in BOOLEAN, y \in BOOLEAN}

\* no call made yet
NoCall == [op |-> "none", res |-> Ok(<<>>)]

Init ==
  /\ q \in Configurations
  /\ dq \in Velocities
  /\ J \in ActiveSets
  /\ p \in ParamSets
  /\ ret = NoCall

(* A behaviour is one call on the drawn arguments: ret then holds the      *)
(* method called and its outcome, beside the arguments it was called on.   *)

CallM ==
  /\ ret = NoCall
  /\ ret' = [op |-> "M", res |-> Ok(M(0, 0, q, J, p))]
  /\ UNCHANGED <<q, dq, J, p>>

Calla ==
  /\ ret = NoCall
  /\ ret' = [op |-> "a", res |-> a(0, 0, q, dq, J, p)]
  /\ UNCHANGED <<q, dq, J, p>>

CallG ==
  /\ ret = NoCall
  /\ ret' = [op |-> "G", res |-> G(0, 0, q, dq, J, p)]
  /\ UNCHANGED <<q, dq, J, p>>

CallO ==
  /\ ret = NoCall
  /\ ret' = [op |-> "O", res |-> O(0, 0, q, dq, J, p)]
  /\ UNCHANGED <<q, dq, J, p>>

CallDa ==
  /\ ret = NoCall
  /\ ret' = [op |-> "Da", res |-> Ok(Da(0, 0, q, dq, J, p))]
  /\ UNCHANGED <<q, dq, J, p>>

CallDelta ==
  /\ ret = NoCall
  /\ \E lib \in EmptyInv :
       ret' = [op |-> "Delta", res |-> Delta(0, 0, q, dq, J, p, lib)]
  /\ UNCHANGED <<q, dq, J, p>>

CallR ==
  /\ ret = NoCall
  /\ \E lib \in EmptyInv :
       ret' = [op |-> "R", res |-> R(0, 0, q, dq, J, p, lib)]
  /\ UNCHANGED <<q, dq, J, p>>

Next == CallM \/ Calla \/ CallG \/ CallO \/ CallDa \/ CallDelta \/ CallR

Spec == Init /\ [][Next]_vars

---------------------------------------------------------------------------
(* The caller's arrays are mutable (numpy arrays, lists).  After R or O    *)
(* has returned, the caller writes element 0 of one of the arrays it       *)
(* passed, in place; every component of the returned value that is that    *)
(* same object shows the write.                                            *)

\* the returned value r after object obj has been written to hold v
Shared(r, obj, v) ==
  [r EXCEPT !.res.val =
     [f \in DOMAIN r.res.val |->
        IF r.res.ref[f] = obj THEN v ELSE r.res.val[f]]]

Returned == ret.op \in {"R", "O"} /\ ret.res.ok

\* q[0] = x
WriteQ ==
  /\ Returned
  /\ \E x \in -MaxAngle..MaxAngle :
       /\ q' = <<Real(RInt(x)), q[2]>>
       /\ q' # q
       /\ ret' = Shared(ret, "q", q')
  /\ UNCHANGED <<dq, J, p>>

\* dq[0] = x
WriteDq ==
  /\ Returned
  /\ \E x \in -MaxVel..MaxVel :
       /\ dq' = <<RInt(x), dq[2]>>
       /\ dq' # dq
       /\ ret' = Shared(ret, "dq", dq')
  /\ UNCHANGED <<q, J, p>>

\* J[0] = not J[0]
WriteJ ==
  /\ Returned
  /\ J' = <<~J[1], J[2]>>
  /\ ret' = Shared(ret, "J", J')
  /\ UNCHANGED <<q, dq, p>>

NextShared == CallR \/ CallO \/ WriteQ \/ WriteDq \/ WriteJ

SpecShared == Init /\ [][NextShared]_vars

---------------------------------------------------------------------------
(* Properties. *)

ZeroVec(n) == Vec(n, [i \in 1..n |-> RZero])

\* the geometry |d/b| > 1, for which arccos(-d/b) is undefined
Unrealizable(p_) ==
  /\ ParamB(p_) # RZero
  /\ RLt(ROne, RAbs(RDiv(ParamD(p_), ParamB(p_))))

\* C1: Da returns the row [1, 0] if J[0], then the row [0, -1] if J[1], in
\* that order; its row count is the number of true entries of J; for
\* J = [False, False] it returns a matrix with 0 rows and len(q) = 2 columns.
C1_DaRows ==
  ret.op = "Da" =>
    LET D == ret.res.val
    IN  /\ ret.res.ok
        /\ D.rows = Len(D.e)
        /\ D.cols = 2
        /\ J = <<TRUE, TRUE>> => D.e = << <<ROne, RZero>>, <<RZero, RInt(-1)>> >>
        /\ J = <<TRUE, FALSE>> => D.e = << <<ROne, RZero>> >>
        /\ J = <<FALSE, TRUE>> => D.e = << <<RZero, RInt(-1)>> >>
        /\ J = <<FALSE, FALSE>> => D.e = <<>> /\ D.rows = 0 /\ D.cols = Len(q)

C1_Witness == ret.op = "Da" /\ J = <<TRUE, TRUE>> /\ ret.res.val.rows = 2

\* C2: every call of R that returns, returns the configuration it was given.
C2_ImpactKeepsQ ==
  (ret.op = "R" /\ ret.res.ok) => ret.res.val.q = q

C2_Witness ==
  /\ ret.op = "R"
  /\ ret.res.ok
  /\ ret.res.Jimpact = <<FALSE, TRUE>>
  /\ ret.res.val.dq # dq

\* C3: every call of R that returns, returns an active set element-wise
\* equal to the input J, also when J differs from the set (a < 0) the
\* projector was built from.
C3_ImpactKeepsJ ==
  (ret.op = "R" /\ ret.res.ok) =>
    /\ ret.res.val.J[1] = J[1]
    /\ ret.res.val.J[2] = J[2]

C3_Witness ==
  /\ ret.op = "R"
  /\ ret.res.ok
  /\ ret.res.Jimpact # J
  /\ ret.res.Jimpact # <<FALSE, FALSE>>

\* C4: for the nominal parameters, q = simultaneous_impact_configuration(p)
\* and dq = simultaneous_impact_velocity(), R returns, with q' = q and with
\* each component of Da.dq' (Da of both contacts) strictly smaller in
\* magnitude than the same component of Da.dq.
C4_NominalImpactDamps ==
  ( /\ ret.op = "R"
    /\ p = nominal_parameters
    /\ q = simultaneous_impact_configuration(p)
    /\ dq = simultaneous_impact_velocity ) =>
      /\ ret.res.ok
      /\ ret.res.val.q = q
      /\ LET Da_ == Da(0, 0, q, dq, <<TRUE, TRUE>>, p)
             before == MatVec(Da_, dq)
             after == MatVec(Da_, ret.res.val.dq)
         IN  \A i \in 1..2 : RLt(RAbs(after[i]), RAbs(before[i]))

\* C5: Delta called with J = [False, False] raises, and so does R whenever
\* no entry of a(q) is negative.
C5_NoContactRaises ==
  /\ (ret.op = "Delta" /\ J = <<FALSE, FALSE>>) => ~ret.res.ok
  /\ ( /\ ret.op = "R"
       /\ a(0, 0, q, dq, J, p).ok
       /\ ~IsNeg(a(0, 0, q, dq, J, p).val[1])
       /\ ~IsNeg(a(0, 0, q, dq, J, p).val[2]) ) => ~ret.res.ok

\* C6: for parameters with |d/b| > 1, a and every method that calls it
\* (G, O, R) end in an error rather than returning.
C6_UnrealizableGeometryRaises ==
  (Unrealizable(p) /\ ret.op \in {"a", "G", "O", "R"}) => ~ret.res.ok

\* C7: for a non-empty active set J for which Delta returns,
\* Da.(Delta.dq) = -gamma.(Da.dq); with gamma = 0 it is the zero vector.
C7_ProjectorTangency ==
  (ret.op = "Delta" /\ ret.res.ok /\ J # <<FALSE, FALSE>>) =>
    LET Da_ == Da(0, 0, q, dq, J, p)
        post == MatVec(Da_, MatVec(ret.res.val, dq))
        pre == MatVec(Da_, dq)
    IN  /\ \A i \in 1..Da_.rows : post[i] = RMul(RNeg(p.gamma), pre[i])
        /\ p.gamma = RZero => post = ZeroVec(Da_.rows)

C7_Witness ==
  /\ ret.op = "Delta"
  /\ ret.res.ok
  /\ p.gamma = RZero
  /\ J = <<TRUE, TRUE>>
  /\ MatVec(Da(0, 0, q, dq, J, p), dq) = <<RInt(-1), RInt(-1)>>
  /\ MatVec(ret.res.val, dq) = <<RZero, RZero>>

\* C8: the matrix M returns is symmetric, and is the same for every
\* configuration with the same q[1].
C8_MassMatrixSymmetric ==
  ret.op = "M" =>
    LET M_ == ret.res.val
    IN  /\ M_.e[1][2] = M_.e[2][1]
        /\ \A c \in Configurations : c[2] = q[2] => M(0, 0, c, J, p) = M_

C8_Witness ==
  /\ ret.op = "M"
  /\ q[1] # Real(RZero)
  /\ ret.res.val.e[1][2] # RZero

\* C9: no component of the triple R returns and no field of the record O
\* returns is the same object as an argument of the call, so that a later
\* write to the caller's q, dq or J does not change a value already
\* returned.
C9_ReturnedValueUnshared ==
  [][Returned =>
       /\ \A f \in DOMAIN ret.res.ref : ret.res.ref[f] = "new"
       /\ ret'.res.val = ret.res.val]_vars

\* C10: in R, contact i is in the set the projector is built from exactly
\* when a(q)[i] < 0: contact 0 when q[0] < 0, contact 1 when q[1] exceeds the
\* contact angle arccos(-d/b), whatever J is; dq' is the projector of that
\* set applied to dq.
C10_ImpactSetFromConstraint ==
  (ret.op = "R" /\ ret.res.ok) =>
    LET c0 == RLt(q[1].rat, RZero)
        c1 == /\ ~Unrealizable(p)
              /\ RLt(Cos(q[2]), RDiv(RNeg(ParamD(p)), ParamB(p)))
    IN  /\ ret.res.Jimpact = <<c0, c1>>
        /\ \E lib \in EmptyInv :
             LET D == Delta(0, 0, q, dq, <<c0, c1>>, p, lib)
             IN  D.ok /\ ret.res.val.dq = MatVec(D.val, dq)

C10_Witness ==
  /\ ret.op = "R"
  /\ ret.res.ok
  /\ J = <<TRUE, FALSE>>
  /\ q[1] = Real(RZero)
  /\ ret.res.Jimpact = <<FALSE, TRUE>>

===========================================================================
